---------------------------- MODULE Spec2Model ----------------------------
(***************************************************************************)
(* A model of overlay_assistant.py: the task library, the request matcher, *)
(* the remote plan provider, the action agent and the overlay's step       *)
(* navigation.  Text is kept as TLA+ strings; JSON values are tagged       *)
(* records; a Python dict whose iteration order matters is a sequence of   *)
(* <<key, value>> pairs in insertion order.                                *)
(***************************************************************************)
EXTENDS Integers, Sequences, FiniteSets, TLC

VARIABLES
    pc,              \* where the process (or the one call under study) stands
    call,            \* the inputs of the call under study; of a session, its surroundings
    ret,             \* what that call returned or raised
    tasks,           \* start_prompt: the library table
    entry,           \* start_prompt: the text of the entry widget
    llm_var,         \* start_prompt: the "Use LLM planner" checkbox
    listbox,         \* start_prompt: the suggestion lines shown
    selection,       \* start_prompt: index of the selected line, 0 for none
    status,          \* start_prompt: the status label
    task,            \* OverlayUI.task
    step_index,      \* OverlayUI.step_index
    status_message,  \* OverlayUI.status_message
    lastRun,         \* history: step and log of the last execute_step that returned,
                     \* None once the index has changed since
    events           \* history: the calls made by the last on_start

vars == <<pc, call, ret, tasks, entry, llm_var, listbox, selection, status,
          task, step_index, status_message, lastRun, events>>

sessionVars == <<tasks, entry, llm_var, listbox, selection, status,
                 task, step_index, status_message, lastRun, events>>

None == [t |-> "none"]

----------------------------------------------------------------------------
(* Text: str.lower, str.strip, str.split, the in test, str.join.         *)

UpperLetters == "ABCDEFGHIJKLMNOPQRSTUVWXYZ"
LowerLetters == "abcdefghijklmnopqrstuvwxyz"

CharAt(s, i) == SubSeq(s, i, i)

LowerChar(c) ==
    IF \E i \in 1..Len(UpperLetters) : CharAt(UpperLetters, i) = c
    THEN CharAt(LowerLetters, CHOOSE i \in 1..Len(UpperLetters) : CharAt(UpperLetters, i) = c)
    ELSE c

RECURSIVE Lower(_)
Lower(s) ==
    IF Len(s) = 0 THEN ""
    ELSE LowerChar(CharAt(s, 1)) \o Lower(SubSeq(s, 2, Len(s)))

IsSpace(c) == c \in {" ", "\t", "\n"}

RECURSIVE LStrip(_)
LStrip(s) ==
    IF Len(s) > 0 /\ IsSpace(CharAt(s, 1)) THEN LStrip(SubSeq(s, 2, Len(s))) ELSE s

RECURSIVE RStrip(_)
RStrip(s) ==
    IF Len(s) > 0 /\ IsSpace(CharAt(s, Len(s))) THEN RStrip(SubSeq(s, 1, Len(s) - 1)) ELSE s

Strip(s) == RStrip(LStrip(s))

\* needle in hay
Contains(hay, needle) ==
    \E i \in 1..(Len(hay) - Len(needle) + 1) : SubSeq(hay, i, i + Len(needle) - 1) = needle

\* the length of the leading run of non-space characters of s
RECURSIVE WordLen(_)
WordLen(s) ==
    IF Len(s) = 0 \/ IsSpace(CharAt(s, 1)) THEN 0 ELSE 1 + WordLen(SubSeq(s, 2, Len(s)))

\* s.split(): the whitespace-delimited tokens of s, in order
RECURSIVE Split(_)
Split(s) ==
    LET r == LStrip(s)
        n == WordLen(r)
    IN  IF Len(r) = 0 THEN <<>>
        ELSE <<SubSeq(r, 1, n)>> \o Split(SubSeq(r, n + 1, Len(r)))

\* sep.join(parts)
RECURSIVE Join(_, _)
Join(sep, parts) ==
    IF Len(parts) = 0 THEN ""
    ELSE IF Len(parts) = 1 THEN parts[1]
    ELSE parts[1] \o sep \o Join(sep, Tail(parts))

----------------------------------------------------------------------------
(* JSON values as json.load returns them.                                  *)

JNull == [t |-> "null"]
JNum(n) == [t |-> "num", n |-> n]
JStr(s) == [t |-> "str", s |-> s]
JList(l) == [t |-> "list", items |-> l]
\* an object whose key order does not matter to the code: a record of its fields
JObj(f) == [t |-> "obj", fields |-> f]
\* an object whose key order matters: its <<key, value>> pairs in order
JMap(pairs) == [t |-> "map", pairs |-> pairs]

EmptyFields == [x \in {} |-> JNull]

Has(obj, key) == key \in DOMAIN obj.fields

\* str(v) as an f-string renders it
PyStr(v) ==
    CASE v.t = "str" -> v.s
      [] v.t = "null" -> "None"
      [] v.t = "num" -> IF v.n = 0 THEN "0" ELSE "1"
      [] OTHER -> "<object>"

\* bool(v)
Truthy(v) ==
    CASE v.t = "str" -> v.s # ""
      [] v.t = "null" -> FALSE
      [] v.t = "num" -> v.n # 0
      [] v.t = "list" -> Len(v.items) > 0
      [] v.t = "obj" -> DOMAIN v.fields # {}
      [] v.t = "map" -> Len(v.pairs) > 0
      [] OTHER -> TRUE

----------------------------------------------------------------------------
(* The data model and _build_task.                                         *)

Action(type, value) == [type |-> type, value |-> value]
Step(instruction, target, actions) ==
    [instruction |-> instruction, target |-> target, actions |-> actions]
Task(title, description, steps, source) ==
    [title |-> title, description |-> description, steps |-> steps, source |-> source]

Ok(v) == [ok |-> TRUE, val |-> v]
Raise(e) == [ok |-> FALSE, exc |-> e]

\* what iterating v yields the loop body: a list's items; a str's characters
\* and an object's keys, both as strings; anything else is not iterable
Iterate(v) ==
    CASE v.t = "list" -> Ok(v.items)
      [] v.t = "str" -> Ok([i \in 1..Len(v.s) |-> JStr(CharAt(v.s, i))])
      [] v.t = "obj" ->
            \* the keys, in some order: every key is a str, which is all the loop sees
            Ok([i \in 1..Cardinality(DOMAIN v.fields) |-> JStr("key")])
      [] v.t = "map" -> Ok([i \in 1..Len(v.pairs) |-> JStr(v.pairs[i][1])])
      [] OTHER -> Raise("TypeError")

\* Action(type=a["type"], value=a.get("value", ""))
BuildAction(a) ==
    IF a.t \notin {"obj"} THEN Raise("TypeError")
    ELSE IF ~Has(a, "type") THEN Raise("KeyError")
    ELSE Ok(Action(a.fields["type"], IF Has(a, "value") THEN a.fields["value"] ELSE JStr("")))

\* a built item put before the items built after it; the first exception wins
Cons(head, rest) == IF ~rest.ok THEN rest ELSE Ok(<<head.val>> \o rest.val)

\* the list comprehension of line 120 over the items, left to right
RECURSIVE BuildActions(_)
ThenActions(a, items) == IF ~a.ok THEN a ELSE Cons(a, BuildActions(items))
BuildActions(items) ==
    IF Len(items) = 0 THEN Ok(<<>>) ELSE ThenActions(BuildAction(items[1]), Tail(items))

\* line 121, once the actions of line 120 are built or have raised
StepOfActions(item, acts) ==
    IF ~acts.ok THEN acts
    ELSE IF ~Has(item, "instruction") THEN Raise("KeyError")
    ELSE Ok(Step(item.fields["instruction"],
                 IF Has(item, "target") THEN item.fields["target"] ELSE JNull,
                 acts.val))

\* the actions of line 120, from what iterating item.get("actions", []) gives
ActionsOfIterated(it) == IF ~it.ok THEN it ELSE BuildActions(it.val)

\* the body of the loop of _build_task for one item of raw["steps"]
BuildStep(item) ==
    IF item.t \notin {"obj"} THEN Raise("AttributeError")  \* item.get
    ELSE StepOfActions(item, ActionsOfIterated(IF Has(item, "actions")
                                               THEN Iterate(item.fields["actions"])
                                               ELSE Ok(<<>>)))

\* the loop of lines 119-121 over the items, in order
RECURSIVE BuildSteps(_)
ThenSteps(s, items) == IF ~s.ok THEN s ELSE Cons(s, BuildSteps(items))
BuildSteps(items) ==
    IF Len(items) = 0 THEN Ok(<<>>) ELSE ThenSteps(BuildStep(items[1]), Tail(items))

\* the steps of lines 118-121, from what iterating raw["steps"] gives
StepsOfIterated(it) == IF ~it.ok THEN it ELSE BuildSteps(it.val)

\* line 122, once the steps are built or have raised
TaskOfSteps(raw, steps, source) ==
    IF ~steps.ok THEN steps
    ELSE IF ~Has(raw, "title") \/ ~Has(raw, "description") THEN Raise("KeyError")
    ELSE Ok(Task(raw.fields["title"], raw.fields["description"], steps.val, source))

\* _build_task(raw, source)
_build_task(raw, source) ==
    IF raw.t \notin {"obj"} THEN Raise("TypeError")        \* raw["steps"] on a non-dict
    ELSE IF ~Has(raw, "steps") THEN Raise("KeyError")
    ELSE TaskOfSteps(raw, StepsOfIterated(Iterate(raw.fields["steps"])), source)

----------------------------------------------------------------------------
(* The built-in library and load_task_library.                             *)

Target(x, y, w, h) ==
    JObj([x |-> JNum(x), y |-> JNum(y), w |-> JNum(w), h |-> JNum(h)])

\* DEFAULT_TASK_LIBRARY; a target's fractions are written in hundredths
DEFAULT_TASK_LIBRARY ==
    << <<"wifi", JObj([
            title |-> JStr("Connect to Wi-Fi"),
            description |-> JStr("Guide to connect to a wireless network from quick settings."),
            steps |-> JList(<<
                JObj([instruction |-> JStr("Open Quick Settings from the taskbar/system tray."),
                      target |-> Target(88, 90, 11, 10)]),
                JObj([instruction |-> JStr("Click the Wi-Fi icon to open available networks."),
                      target |-> Target(78, 64, 10, 10)]),
                JObj([instruction |-> JStr("Select your network from the list."),
                      target |-> Target(68, 36, 28, 35)]),
                JObj([instruction |-> JStr("Choose Connect and enter your password if prompted."),
                      target |-> Target(76, 72, 14, 10)]) >>)]) >>,
       <<"vpn", JObj([
            title |-> JStr("Connect Company VPN"),
            description |-> JStr("Guide to open VPN settings and connect."),
            steps |-> JList(<<
                JObj([instruction |-> JStr("Open your company VPN app."),
                      actions |-> JList(<<JObj([type |-> JStr("open_app"), value |-> JStr("")])>>)]),
                JObj([instruction |-> JStr("Choose your company profile from the list.")]),
                JObj([instruction |-> JStr("Click Connect and complete MFA if prompted.")]) >>)]) >> >>

Keys(pairs) == [i \in 1..Len(pairs) |-> pairs[i][1]]
KeySet(pairs) == {pairs[i][1] : i \in 1..Len(pairs)}
HasKey(pairs, k) == k \in KeySet(pairs)
\* d[k], for a key of d
Lookup(pairs, k) == pairs[CHOOSE i \in 1..Len(pairs) : pairs[i][1] = k][2]

\* a merge in which the built-in entry wins over the incoming one
SetItemKeepExisting(pairs, k, v) ==
    IF HasKey(pairs, k) THEN pairs ELSE Append(pairs, <<k, v>>)

\* d[k] = v: an existing key keeps its place, a new one goes last
SetItem(pairs, k, v) ==
    IF HasKey(pairs, k)
    THEN [i \in 1..Len(pairs) |-> IF pairs[i][1] = k THEN <<k, v>> ELSE pairs[i]]
    ELSE Append(pairs, <<k, v>>)

\* d.update(incoming)
RECURSIVE Update(_, _)
Update(pairs, incoming) ==
    IF Len(incoming) = 0 THEN pairs
    ELSE Update(SetItem(pairs, incoming[1][1], incoming[1][2]), Tail(incoming))

\* the dict comprehension of line 134 over raw.items(), in order
RECURSIVE BuildTable(_)
ThenTable(key, b, raw) == IF ~b.ok THEN b ELSE Cons(Ok(<<key, b.val>>), BuildTable(raw))
BuildTable(raw) ==
    IF Len(raw) = 0 THEN Ok(<<>>)
    ELSE ThenTable(raw[1][1], _build_task(raw[1][2], "library"), Tail(raw))

\* the tasks file as the process finds it
AbsentFile == [state |-> "absent"]
MalformedFile == [state |-> "malformed"]         \* exists, not JSON
JsonFile(v) == [state |-> "json", value |-> v]   \* exists, holds the JSON value v

\* the merged raw dict of lines 126-132, before any Task is built
MergedRaw(file) ==
    IF file.state = "json" /\ file.value.t = "map"
    THEN Update(DEFAULT_TASK_LIBRARY, file.value.pairs)
    ELSE DEFAULT_TASK_LIBRARY

\* load_task_library(tasks_file)
load_task_library(file) ==
    IF file.state = "malformed" THEN Raise("JSONDecodeError")
    ELSE BuildTable(MergedRaw(file))

----------------------------------------------------------------------------
(* Bounded inputs: JSON values shaped like, and unlike, a task.            *)

MaxActions == 2    \* actions per step of a drawn input
MaxSteps == 2      \* steps per task of a drawn input
MaxEntries == 2    \* entries of a drawn tasks file

\* sequences over S of length n
SeqsOfLen(S, n) == [1..n -> S]

\* lists of at most n items whose last item is drawn from S and whose earlier
\* items are drawn from G
Lists(G, S, n) ==
    {<<>>} \cup UNION {{Append(g, x) : g \in SeqsOfLen(G, k), x \in S} : k \in 0..(n - 1)}

GoodAction == JObj([type |-> JStr("open_app"), value |-> JStr("settings")])

RawActionSet ==
    { GoodAction,
      JObj([type |-> JStr("open_url")]),       \* no value
      JObj([value |-> JStr("x")]),             \* no type
      JStr("a") }                              \* not an object

GoodStep == JObj([instruction |-> JStr("Open settings")])

RawStepSet ==
    { GoodStep,
      JObj([instruction |-> JNum(1)]),          \* an instruction that is no string
      JObj([target |-> Target(10, 10, 10, 10)]),  \* no instruction
      JObj([instruction |-> JStr("Open settings"), actions |-> JNum(1)]),
      JStr("s") }                               \* not an object
    \cup { JObj([instruction |-> JStr("Open settings"), actions |-> JList(l)]) :
              l \in Lists({GoodAction}, RawActionSet, MaxActions) }

StepsFieldSet ==
    { JList(l) : l \in Lists({GoodStep}, RawStepSet, MaxSteps) } \cup { JNull }

CustomTitle == JStr("Custom task")
CustomDescription == JStr("A task written by the user")

RawTaskSet ==
    UNION { { JObj([title |-> CustomTitle, description |-> CustomDescription, steps |-> st]),
              JObj([title |-> CustomTitle, description |-> CustomDescription, steps |-> st,
                    source |-> JStr("llm")]),
              JObj([description |-> CustomDescription, steps |-> st]),
              JObj([title |-> CustomTitle, steps |-> st]) } : st \in StepsFieldSet }
    \cup { JObj([title |-> CustomTitle, description |-> CustomDescription]),  \* no steps
           JStr("steps") }                                                  \* not an object

GoodTask ==
    JObj([title |-> JStr("Connect Bluetooth Device"),
          description |-> JStr("Pair a bluetooth device"),
          steps |-> JList(<<JObj([instruction |-> JStr("Open settings"),
                                  actions |-> JList(<<GoodAction>>)])>>)])

OverrideKeys == {"wifi", "vpn", "bluetooth"}

\* the key sequences of a JSON object: no key twice
DistinctKeySeqs(n) ==
    {ks \in SeqsOfLen(OverrideKeys, n) : \A i, j \in 1..n : ks[i] = ks[j] => i = j}

\* the objects with at most MaxEntries entries
OverrideMaps ==
    UNION { { JMap([i \in 1..n |-> <<ks[i], vs[i]>>]) :
                ks \in DistinctKeySeqs(n),
                vs \in {v \in Lists({GoodTask}, RawTaskSet, n) : Len(v) = n} } :
            n \in 0..MaxEntries }

OverrideFiles ==
    { AbsentFile, MalformedFile }
    \cup { JsonFile(v) : v \in OverrideMaps }
    \cup { JsonFile(JList(<<GoodTask>>)), JsonFile(JStr("vpn")), JsonFile(JNum(1)),
           JsonFile(JNull) }

----------------------------------------------------------------------------
(* One call of load_task_library.                                          *)

IdleSession ==
    /\ tasks = <<>>
    /\ entry = ""
    /\ llm_var = TRUE
    /\ listbox = <<>>
    /\ selection = 0
    /\ status = ""
    /\ task = None
    /\ step_index = 0
    /\ status_message = ""
    /\ lastRun = None
    /\ events = <<>>

InitLoad ==
    /\ pc = "call"
    /\ call \in { [op |-> "load", file |-> f] : f \in OverrideFiles }
    /\ ret = None
    /\ IdleSession

LoadCall ==
    /\ pc = "call"
    /\ call.op = "load"
    /\ ret' = load_task_library(call.file)
    /\ pc' = "done"
    /\ UNCHANGED <<call, sessionVars>>

NextLoad == LoadCall

SpecLoad == InitLoad /\ [][NextLoad]_vars


\* the override mapping of the call under study: empty unless the file holds an object
OverridePairs ==
    IF call.file.state = "json" /\ call.file.value.t = "map"
    THEN call.file.value.pairs ELSE <<>>

\* C4 as claimed: load raises only for a file that exists and is malformed, and
\* then a JSONDecodeError; for an absent file and for every well-formed content it
\* returns a table.
C4_LoadFailsOnlyOnMalformed ==
    (pc = "done" /\ call.op = "load") =>
        /\ ~ret.ok => (call.file.state = "malformed" /\ ret.exc = "JSONDecodeError")
        /\ call.file.state \in {"absent", "json"} => ret.ok

\* C5: a table returned by load holds exactly the built-in ids and the override's
\* ids, each once; an id of the override maps to the Task built from the override's
\* entry alone, a built-in id the override lacks maps to the built-in Task, and
\* every Task is tagged library.
C5_MergeIsWholeEntryReplacement ==
    (pc = "done" /\ call.op = "load" /\ ret.ok) =>
        LET table == ret.val
            ov == OverridePairs
        IN  /\ KeySet(table) = KeySet(DEFAULT_TASK_LIBRARY) \cup KeySet(ov)
            /\ Cardinality(KeySet(table)) = Len(table)
            /\ \A k \in KeySet(ov) :
                  /\ _build_task(Lookup(ov, k), "library").ok
                  /\ Lookup(table, k) = _build_task(Lookup(ov, k), "library").val
            /\ \A k \in KeySet(DEFAULT_TASK_LIBRARY) \ KeySet(ov) :
                  Lookup(table, k) = _build_task(Lookup(DEFAULT_TASK_LIBRARY, k), "library").val
            /\ \A i \in 1..Len(table) : table[i][2].source = "library"

\* C5's case: a table was returned for an override that replaces a built-in id,
\* adds a new one and carries a source field of its own
C5_Witness ==
    /\ pc = "done" /\ call.op = "load" /\ ret.ok
    /\ {"vpn", "bluetooth"} \subseteq KeySet(OverridePairs)
    /\ \E i \in 1..Len(OverridePairs) : Has(OverridePairs[i][2], "source")
    /\ Lookup(ret.val, "vpn").title # Lookup(ret.val, "wifi").title

----------------------------------------------------------------------------
(* _extract_json_blob and generate_task_from_llm.                          *)

\* A str that spells a JSON document: what opens it (nothing, a code fence of
\* three backquotes, such a fence tagged json, a fence with another tag), whether
\* a fence closes it, and the document between them: the value it spells, or
\* Malformed.
Malformed == [t |-> "malformed"]
JText(lead, trail, doc) == [t |-> "str", lead |-> lead, trail |-> trail, doc |-> doc]

\* json.loads(doc), with JSONDecodeError caught and turned into None
LoadsOrNone(doc) == IF doc = Malformed THEN JNull ELSE doc

\* _extract_json_blob(content), for a str content
_extract_json_blob(content) ==
    IF "doc" \notin DOMAIN content
    THEN JNull     \* plain text, no JSON document: json.loads fails
    ELSE CASE content.lead \in {"fence", "fence_json"} -> LoadsOrNone(content.doc)
           [] content.lead = "fence_other" -> JNull      \* the tag is left before the document
           [] OTHER -> IF content.trail THEN JNull    \* the closing fence is left after it
                       ELSE LoadsOrNone(content.doc)

\* obj.get(key, default)
Get(obj, key, default) ==
    IF obj.t # "obj" THEN Raise("AttributeError")
    ELSE Ok(IF Has(obj, key) THEN obj.fields[key] ELSE default)

\* v[0]
Index0(v) ==
    CASE v.t = "list" -> IF Len(v.items) = 0 THEN Raise("IndexError") ELSE Ok(v.items[1])
      [] v.t = "str" /\ "s" \in DOMAIN v ->
            IF v.s = "" THEN Raise("IndexError") ELSE Ok(JStr(CharAt(v.s, 1)))
      [] v.t = "obj" -> Raise("KeyError")
      [] OTHER -> Raise("TypeError")

\* "steps" in blob
StepsIn(blob) ==
    CASE blob.t = "obj" -> Ok(Has(blob, "steps"))
      [] blob.t = "list" -> Ok(\E i \in 1..Len(blob.items) : blob.items[i] = JStr("steps"))
      [] blob.t = "str" -> Ok(Contains(blob.s, "steps"))
      [] OTHER -> Raise("TypeError")

Unavailable == None

\* urllib.request.Request(endpoint): a URL with no scheme is refused
HasScheme(url) ==
    \E i \in 2..Len(url) :
       /\ CharAt(url, i) = ":"
       /\ \A j \in 1..(i - 1) : CharAt(url, j) \notin {":", "/"}

\* lines 244-247: the Task built, or its KeyError or TypeError caught
CatchBuild(built) ==
    IF built.ok THEN built
    ELSE IF built.exc \in {"KeyError", "TypeError"} THEN Ok(Unavailable)
    ELSE built

\* lines 241-247, with what the test "steps" in blob gave
FromStepsIn(blob, has) ==
    IF ~has.ok THEN has
    ELSE IF ~has.val THEN Ok(Unavailable)
    ELSE CatchBuild(_build_task(blob, "llm"))

\* lines 241-247
FromBlob(blob) == IF ~Truthy(blob) THEN Ok(Unavailable) ELSE FromStepsIn(blob, StepsIn(blob))

\* lines 238-247, with what .get("content", "") gave
FromContent(content) ==
    IF ~content.ok THEN content
    ELSE IF content.val.t # "str" THEN Raise("AttributeError")   \* content.strip()
    ELSE FromBlob(_extract_json_blob(content.val))

\* lines 237-247, with what .get("message", {}) gave
FromMessage(message) ==
    IF ~message.ok THEN message ELSE FromContent(Get(message.val, "content", JStr("")))

\* lines 236-247, with what [0] gave
FromFirst(first) ==
    IF ~first.ok THEN first ELSE FromMessage(Get(first.val, "message", JObj(EmptyFields)))

\* lines 236-247, with what data.get("choices", [{}]) gave
FromChoices(choices) == IF ~choices.ok THEN choices ELSE FromFirst(Index0(choices.val))

\* lines 235-247: from the decoded response body to the result
TaskFromData(data) == FromChoices(Get(data, "choices", JList(<<JObj(EmptyFields)>>)))

\* What the network call of lines 230-231 comes to: an exception, or a body that
\* is JSON (its value) or is not.
NetURLError == [kind |-> "URLError"]
NetTimeout == [kind |-> "TimeoutError"]
NetNotJson == [kind |-> "notjson"]
NetJson(v) == [kind |-> "json", data |-> v]

\* generate_task_from_llm, given the environment and what the network would do
generate_task_from_llm(env, net) ==
    IF Strip(env.url) = "" \/ Strip(env.model) = "" THEN Ok(Unavailable)
    ELSE IF ~HasScheme(Strip(env.url)) THEN Raise("ValueError")
    ELSE IF net.kind \in {"URLError", "TimeoutError", "notjson"} THEN Ok(Unavailable)
    ELSE TaskFromData(net.data)

\* whether generate_task_from_llm gets as far as the network call
CallsNetwork(env) ==
    /\ Strip(env.url) # "" /\ Strip(env.model) # ""
    /\ HasScheme(Strip(env.url))

----------------------------------------------------------------------------
(* One call of generate_task_from_llm.                                     *)

EnvSet ==
    [url : {"", " ", " http://llm.test/v1 ", "llm.test/v1"}, model : {"", " m "},
     api_key : {"", "k"}]

BlobSet ==
    RawTaskSet \cup
    { Malformed, JNull, JNum(0), JNum(1), JStr(""), JStr("x"), JObj(EmptyFields), JList(<<>>),
      JList(<<JStr("steps")>>), JList(<<JNum(1)>>) }

ContentSet ==
    { JText(lead, trail, doc) : lead \in {"", "fence", "fence_json", "fence_other"},
                                 trail \in BOOLEAN, doc \in BlobSet }
    \cup { JNull, JNum(1), JList(<<>>), JObj(EmptyFields), JStr("sorry, no plan") }

MessageSet ==
    { JObj([content |-> c]) : c \in ContentSet }
    \cup { JObj(EmptyFields), JNull, JStr("m") }

ChoiceSet ==
    { JObj([message |-> m]) : m \in MessageSet } \cup { JObj(EmptyFields), JNull, JStr("c") }

DataSet ==
    { JObj([choices |-> JList(<<c>>)]) : c \in ChoiceSet }
    \cup { JObj(EmptyFields), JObj([choices |-> JList(<<>>)]), JObj([choices |-> JNull]),
           JObj([choices |-> JStr("")]), JObj([choices |-> JStr("x")]),
           JObj([choices |-> JObj(EmptyFields)]),
           JList(<<>>), JNull, JNum(1), JStr("ok") }

NetSet == { NetURLError, NetTimeout, NetNotJson } \cup { NetJson(d) : d \in DataSet }

InitGen ==
    /\ pc = "call"
    /\ call \in { [op |-> "generate", env |-> e, net |-> n] : e \in EnvSet, n \in NetSet }
    /\ ret = None
    /\ IdleSession

GenerateCall ==
    /\ pc = "call"
    /\ call.op = "generate"
    /\ ret' = generate_task_from_llm(call.env, call.net)
    /\ pc' = "done"
    /\ UNCHANGED <<call, sessionVars>>

NextGen == GenerateCall

SpecGen == InitGen /\ [][NextGen]_vars

\* C3 as claimed: generate never raises; whatever the configuration and whatever the
\* network call comes to, it returns a Task tagged llm or Unavailable.
C3_GenerateNeverRaises ==
    (pc = "done" /\ call.op = "generate") =>
        /\ ret.ok
        /\ ret.val # Unavailable => ret.val.source = "llm"

----------------------------------------------------------------------------
(* RequestMatcher: infer_task_key and suggest_tasks.                       *)

KEYWORDS ==
    << <<"wifi", <<"wifi", "wi-fi", "wireless", "internet", "network">> >>,
       <<"vpn", <<"vpn", "remote", "tunnel", "secure access">> >> >>

Some(k) == [t |-> "some", v |-> k]

\* the keywords argument: left out (None), or a dict
NoKeywords == [given |-> FALSE]
KeywordsArg(m) == [given |-> TRUE, map |-> m]

\* sum(1 for word in words if word in text)
RECURSIVE CountIn(_, _)
CountIn(words, text) ==
    IF Len(words) = 0 THEN 0
    ELSE (IF Contains(text, words[1]) THEN 1 ELSE 0) + CountIn(Tail(words), text)

\* the loop of lines 145-149 over the rest of keyword_map.items()
RECURSIVE InferLoop(_, _, _, _)
InferLoop(items, text, best_key, best_score) ==
    IF Len(items) = 0 THEN [best_key |-> best_key, best_score |-> best_score]
    ELSE LET score == CountIn(items[1][2], text)
         IN  IF score > best_score
             THEN InferLoop(Tail(items), text, Some(items[1][1]), score)
             ELSE InferLoop(Tail(items), text, best_key, best_score)

\* keywords or KEYWORDS
KeywordMap(keywords) ==
    IF keywords.given /\ Len(keywords.map) > 0 THEN keywords.map ELSE KEYWORDS

\* infer_task_key(request, keywords)
infer_task_key(request, keywords) ==
    LET keyword_map == KeywordMap(keywords)
        text == Strip(Lower(request))
    IN  IF text = "" THEN None
        ELSE LET r == InferLoop(keyword_map, text, None, 0)
             IN  IF r.best_score # 0 THEN r.best_key ELSE None

\* f"{key} {task.title} {task.description}".lower()
Bag(key, t) == Lower(key \o " " \o PyStr(t.title) \o " " \o PyStr(t.description))

\* the loop of lines 160-163: the (score, key) pairs in table order
Ranked(text, table) ==
    [i \in 1..Len(table) |-> <<CountIn(Split(text), Bag(table[i][1], table[i][2])), table[i][1]>>]

\* a sort that puts a pair before the pairs of equal score already placed
InsertBeforeEqual(sorted, pair) ==
    LET n == Cardinality({i \in 1..Len(sorted) : sorted[i][1] > pair[1]})
    IN  SubSeq(sorted, 1, n) \o <<pair>> \o SubSeq(sorted, n + 1, Len(sorted))

\* one pair placed into a list sorted by non-increasing score: after every pair
\* whose score is at least its own (list.sort is stable, reverse=True keeps it so)
InsertByScore(sorted, pair) ==
    LET n == Cardinality({i \in 1..Len(sorted) : sorted[i][1] >= pair[1]})
    IN  SubSeq(sorted, 1, n) \o <<pair>> \o SubSeq(sorted, n + 1, Len(sorted))

\* ranked.sort(key=lambda pair: pair[0], reverse=True)
RECURSIVE SortByScore(_, _)
SortByScore(done, todo) ==
    IF Len(todo) = 0 THEN done
    ELSE SortByScore(InsertByScore(done, todo[1]), Tail(todo))

\* [k for score, k in ranked if score > 0]
RECURSIVE Scoring(_)
Scoring(ranked) ==
    IF Len(ranked) = 0 THEN <<>>
    ELSE (IF ranked[1][1] > 0 THEN <<ranked[1][2]>> ELSE <<>>) \o Scoring(Tail(ranked))

\* suggest_tasks(request, tasks)
suggest_tasks(request, table) ==
    LET text == Strip(Lower(request))
    IN  IF text = "" THEN Keys(table)
        ELSE LET hits == Scoring(SortByScore(<<>>, Ranked(text, table)))
             IN  IF Len(hits) > 0 THEN hits ELSE Keys(table)

----------------------------------------------------------------------------
(* Bounded inputs of the matcher, and one call of each function.           *)

MaxReqLen == 3     \* characters of a drawn request
MaxWords == 2      \* keywords per id of a drawn keyword map

\* the strings over alphabet of length at most n
RECURSIVE Strings(_, _)
Strings(alphabet, n) ==
    IF n = 0 THEN {""}
    ELSE LET shorter == Strings(alphabet, n - 1)
         IN  shorter \cup {s \o c : s \in shorter, c \in alphabet}

SampleRequests ==
    { "my internet wifi is down", "need vpn secure access", "please connect vpn",
      "   ", "Remote WIFI", "printer" }

Requests == Strings({"a", "B", " "}, MaxReqLen) \cup SampleRequests

MatchIds == {"a", "b", "ab"}

\* the keyword tuples of an id: at most MaxWords words, the last one arbitrary
WordTuples == Lists({"a"}, {"a", "b", ""}, MaxWords)

KeywordMaps ==
    UNION { { [i \in 1..n |-> <<ks[i], ws[i]>>] :
                ks \in {k \in SeqsOfLen(MatchIds, n) : \A i, j \in 1..n : k[i] = k[j] => i = j},
                ws \in SeqsOfLen(WordTuples, n) } :
            n \in 0..MaxEntries }

InitInfer ==
    /\ pc = "call"
    /\ call \in { [op |-> "infer", request |-> r, keywords |-> k] :
                    r \in Requests,
                    k \in {NoKeywords} \cup {KeywordsArg(m) : m \in KeywordMaps} }
    /\ ret = None
    /\ IdleSession

InferCall ==
    /\ pc = "call"
    /\ call.op = "infer"
    /\ ret' = [val |-> infer_task_key(call.request, call.keywords)]
    /\ pc' = "done"
    /\ UNCHANGED <<call, sessionVars>>

NextInfer == InferCall

SpecInfer == InitInfer /\ [][NextInfer]_vars

\* the number of the keywords in words that occur in text
ScoreOf(words, text) == Cardinality({i \in 1..Len(words) : Contains(text, words[i])})

\* what C6 says infer_task_key returns for the request and the map m
InferAsClaimed(request, m) ==
    LET text == Strip(Lower(request))
        sc(i) == ScoreOf(m[i][2], text)
    IN  IF text = "" \/ \A i \in 1..Len(m) : sc(i) = 0
        THEN {None}
        ELSE { Some(m[i][1]) : i \in {i \in 1..Len(m) :
                                        /\ \A j \in 1..Len(m) : sc(j) <= sc(i)
                                        /\ \A j \in 1..(i - 1) : sc(j) < sc(i)} }

\* C6 as claimed: for every request and every map passed, a map with no entries
\* included, the result is none when the trimmed request is empty or every id of the
\* passed map scores zero, and else the first id of the map with the maximum score.
C6_InferOverPassedMap ==
    (pc = "done" /\ call.op = "infer" /\ call.keywords.given) =>
        ret.val \in InferAsClaimed(call.request, call.keywords.map)

\* The same statement for the maps that have an entry, and for the built-in
\* keywords when no map is passed: it holds, which leaves the map with no entries
\* as the only divergence.
InferOverNonEmptyMap ==
    (pc = "done" /\ call.op = "infer") =>
        \/ call.keywords.given /\ Len(call.keywords.map) = 0
        \/ ret.val \in InferAsClaimed(call.request, KeywordMap(call.keywords))


\* the built-in library as load_task_library returns it when no file overrides it
DefaultTable == load_task_library(AbsentFile).val

\* small tasks to rank: one step each, told apart by title and description
SmallTasks ==
    { Task(JStr("A"), JStr(""), <<Step(JStr("Open settings"), JNull, <<>>)>>, "library"),
      Task(JStr("b a"), JStr("B"), <<Step(JStr("Open settings"), JNull, <<>>)>>, "library") }

SuggestTables ==
    UNION { { [i \in 1..n |-> <<ks[i], ts[i]>>] :
                ks \in {k \in SeqsOfLen(MatchIds, n) : \A i, j \in 1..n : k[i] = k[j] => i = j},
                ts \in SeqsOfLen(SmallTasks, n) } :
            n \in 0..MaxEntries }
    \cup { DefaultTable }

InitSuggest ==
    /\ pc = "call"
    /\ call \in { [op |-> "suggest", request |-> r, table |-> t] :
                    r \in Requests, t \in SuggestTables }
    /\ ret = None
    /\ IdleSession

SuggestCall ==
    /\ pc = "call"
    /\ call.op = "suggest"
    /\ ret' = [val |-> suggest_tasks(call.request, call.table)]
    /\ pc' = "done"
    /\ UNCHANGED <<call, sessionVars>>

NextSuggest == SuggestCall

SpecSuggest == InitSuggest /\ [][NextSuggest]_vars

\* the score of the table's id k for the request: the number of the request's
\* tokens that occur in the lowercased id, title and description of k
SuggestScore(request, table, k) ==
    LET tokens == Split(Strip(Lower(request)))
    IN  Cardinality({i \in 1..Len(tokens) : Contains(Bag(k, Lookup(table, k)), tokens[i])})

\* the place of id k in the table
PlaceOf(table, k) == CHOOSE i \in 1..Len(table) : table[i][1] = k

\* C7: for a table that is not empty, suggest_tasks returns a non-empty list of
\* distinct ids of the table: every id in table order when the trimmed request is
\* empty or no task scores; otherwise exactly the ids that score, by non-increasing
\* score, ids of equal score in table order.
C7_SuggestRanksStably ==
    (pc = "done" /\ call.op = "suggest" /\ Len(call.table) > 0) =>
        LET out == ret.val
            table == call.table
            sc(k) == SuggestScore(call.request, table, k)
        IN  /\ Len(out) > 0
            /\ \A i \in 1..Len(out) : out[i] \in KeySet(table)
            /\ \A i, j \in 1..Len(out) : out[i] = out[j] => i = j
            /\ IF Strip(call.request) = "" \/ \A k \in KeySet(table) : sc(k) = 0
               THEN out = Keys(table)
               ELSE /\ {out[i] : i \in 1..Len(out)} = {k \in KeySet(table) : sc(k) > 0}
                    /\ \A i, j \in 1..Len(out) : i < j =>
                          \/ sc(out[i]) > sc(out[j])
                          \/ /\ sc(out[i]) = sc(out[j])
                             /\ PlaceOf(table, out[i]) < PlaceOf(table, out[j])

\* C7's cases: the example of the test (vpn first, then wifi, on the built-in
\* library) ...
C7_WitnessExample ==
    /\ pc = "done" /\ call.op = "suggest"
    /\ call.request = "please connect vpn" /\ call.table = DefaultTable
    /\ ret.val = <<"vpn", "wifi">>

\* ... and a later id that outranks an earlier one while a third scores nothing,
\* or two ids of equal score that keep their table order
C7_Witness ==
    /\ pc = "done" /\ call.op = "suggest" /\ Len(call.table) > 1
    /\ Len(ret.val) > 1
    /\ SuggestScore(call.request, call.table, ret.val[1])
          = SuggestScore(call.request, call.table, ret.val[2])
    /\ SuggestScore(call.request, call.table, ret.val[1]) > 1

----------------------------------------------------------------------------
(* FrontendAgent: execute_step and _execute_action.                        *)

\* What the host does when asked: webbrowser.open and subprocess.Popen return or
\* raise; pyautogui is missing, or its hotkey call returns or raises.
HostSet ==
    [browser : {"ok", "raise"}, popen : {"ok", "raise"}, pyautogui : {"ok", "missing", "raise"}]

\* the first plus sign of s, or 0
PlusAt(s) ==
    IF \E i \in 1..Len(s) : CharAt(s, i) = "+"
    THEN CHOOSE i \in 1..Len(s) : CharAt(s, i) = "+" /\ \A j \in 1..(i - 1) : CharAt(s, j) # "+"
    ELSE 0

\* [k.strip() for k in s.split("+") if k.strip()]
RECURSIVE HotkeyParts(_)
HotkeyParts(s) ==
    LET p == PlusAt(s)
        head == Strip(IF p = 0 THEN s ELSE SubSeq(s, 1, p - 1))
        kept == IF head = "" THEN <<>> ELSE <<head>>
    IN  IF p = 0 THEN kept ELSE kept \o HotkeyParts(SubSeq(s, p + 1, Len(s)))

\* what one action comes to: the log line it returns or the exception it raises,
\* and the host calls it made
Line(text, calls) == [ok |-> TRUE, val |-> text, calls |-> calls]
Raised(e, calls) == [ok |-> FALSE, exc |-> e, calls |-> calls]

\* FrontendAgent._execute_action(action), on a host that behaves as host says
_execute_action(action, host) ==
    CASE action.type = JStr("open_url") ->
            IF host.browser = "raise"
            THEN Raised("ValueError", <<>>)
            ELSE Line("Opened URL: " \o PyStr(action.value), <<<<"webbrowser.open", action.value>>>>)
      [] action.type = JStr("open_app") ->
            IF Truthy(action.value)
            THEN IF host.popen = "raise"
                 THEN Raised("OSError", <<>>)
                 ELSE Line("Launched app command: " \o PyStr(action.value),
                           <<<<"subprocess.Popen", action.value>>>>)
            ELSE Line("Skipped open_app: missing command value.", <<>>)
      [] action.type = JStr("hotkey") ->
            IF host.pyautogui = "missing" \/ action.value.t # "str"
            THEN Line("Hotkey action requires optional dependency pyautogui.", <<>>)
            ELSE IF Len(HotkeyParts(action.value.s)) > 0
                 THEN IF host.pyautogui = "raise"
                      THEN Line("Hotkey action requires optional dependency pyautogui.", <<>>)
                      ELSE Line("Sent hotkey: " \o PyStr(action.value),
                                <<<<"pyautogui.hotkey", JList(HotkeyParts(action.value.s))>>>>)
                 ELSE Line("Skipped hotkey: no keys provided.", <<>>)
      [] OTHER -> Line("Unknown action type: " \o PyStr(action.type), <<>>)

\* the loop of lines 87-88 over the rest of step.actions
RECURSIVE ExecuteLoop(_, _, _, _)
ExecuteLoop(actions, host, logs, calls) ==
    IF Len(actions) = 0 THEN [ok |-> TRUE, val |-> logs, calls |-> calls]
    ELSE LET r == _execute_action(actions[1], host)
         IN  IF ~r.ok THEN Raised(r.exc, calls \o r.calls)
             ELSE ExecuteLoop(Tail(actions), host, Append(logs, r.val), calls \o r.calls)

\* FrontendAgent.execute_step(step)
execute_step(step, host) ==
    IF Len(step.actions) = 0
    THEN [ok |-> TRUE, val |-> <<"No automatic actions on this step.">>, calls |-> <<>>]
    ELSE ExecuteLoop(step.actions, host, <<>>, <<>>)

----------------------------------------------------------------------------
(* One call of execute_step.                                               *)

ExecActions ==
    { Action(JStr(ty), JStr(v)) :
        ty \in {"open_url", "open_app", "hotkey", "launch_rocket"},
        v \in {"", " + ", "ctrl + c", "https://support.test"} }

ExecSteps ==
    { Step(JStr("Open settings"), JNull, as) :
        as \in UNION { SeqsOfLen(ExecActions, n) : n \in 0..MaxActions } }

InitExec ==
    /\ pc = "call"
    /\ call \in { [op |-> "exec", step |-> st, host |-> h] : st \in ExecSteps, h \in HostSet }
    /\ ret = None
    /\ IdleSession

ExecCall ==
    /\ pc = "call"
    /\ call.op = "exec"
    /\ ret' = execute_step(call.step, call.host)
    /\ pc' = "done"
    /\ UNCHANGED <<call, sessionVars>>

NextExec == ExecCall

SpecExec == InitExec /\ [][NextExec]_vars

KnownTypes == {JStr("open_url"), JStr("open_app"), JStr("hotkey")}

\* C8 as claimed: execute_step always returns a log: the one line "no automatic
\* actions" for a step without actions, otherwise one line per action in order, an
\* unrecognized type giving an "unknown action type" line that names the tag; a host
\* call that fails neither aborts execute_step nor keeps a later action from its line.
C8_ExecuteStepAlwaysLogs ==
    (pc = "done" /\ call.op = "exec") =>
        LET actions == call.step.actions IN
        /\ ret.ok
        /\ Len(actions) = 0 => ret.val = <<"No automatic actions on this step.">>
        /\ Len(actions) > 0 =>
              /\ Len(ret.val) = Len(actions)
              /\ \A i \in 1..Len(actions) :
                    actions[i].type \notin KnownTypes =>
                        ret.val[i] = "Unknown action type: " \o PyStr(actions[i].type)

\* The same statement on a host whose URL open and process launch do not raise: it
\* holds, the failure of pyautogui included, which leaves the uncaught exception of
\* webbrowser.open and of subprocess.Popen as the only divergence.
ExecuteStepLogsUnlessHostRaises ==
    (pc = "done" /\ call.op = "exec") =>
        \/ \E i \in 1..Len(call.step.actions) :
              \/ call.step.actions[i].type = JStr("open_url") /\ call.host.browser = "raise"
              \/ /\ call.step.actions[i].type = JStr("open_app")
                 /\ Truthy(call.step.actions[i].value)
                 /\ call.host.popen = "raise"
        \/ /\ ret.ok
           /\ Len(ret.val) = IF Len(call.step.actions) = 0 THEN 1 ELSE Len(call.step.actions)

----------------------------------------------------------------------------
(* start_prompt: the prompt window, on_start, and the overlay it launches. *)

ListboxRows == 6

\* text.split("[")[-1]
RECURSIVE AfterLastBracket(_)
AfterLastBracket(text) ==
    IF \E i \in 1..Len(text) : CharAt(text, i) = "["
    THEN AfterLastBracket(SubSeq(text, 1 + (CHOOSE i \in 1..Len(text) : CharAt(text, i) = "["),
                                 Len(text)))
    ELSE text

\* text.rstrip("]")
RECURSIVE RStripBracket(_)
RStripBracket(text) ==
    IF Len(text) > 0 /\ CharAt(text, Len(text)) = "]"
    THEN RStripBracket(SubSeq(text, 1, Len(text) - 1))
    ELSE text

\* f"{tasks[key].title}  [{key}]"
ListboxLine(table, key) == PyStr(Lookup(table, key).title) \o "  [" \o key \o "]"

\* the lines refresh_suggestions puts in the listbox
SuggestionLines(text, table) ==
    LET keys == suggest_tasks(text, table)
        n == IF Len(keys) < ListboxRows THEN Len(keys) ELSE ListboxRows
    IN  [i \in 1..n |-> ListboxLine(table, keys[i])]

\* selected_task_key()
selected_task_key(lines, sel, text) ==
    IF sel # 0 THEN Some(RStripBracket(AfterLastBracket(lines[sel])))
    ELSE infer_task_key(text, NoKeywords)

StatusEmptyRequest == "Please enter a request."
StatusFallback == "LLM unavailable or returned invalid JSON. Falling back to local library."
StatusNotRecognized ==
    "Task not recognized yet. Add tasks in tasks.json, pick a suggestion, or enable LLM."

Generated(r) == [call |-> "generate", result |-> r]
Matched(k) == [call |-> "match", key |-> k]
Launched(t) == [call |-> "launch", task |-> t]

\* What one run of on_start does: the calls it makes in order, the text it leaves
\* in the status label, and how it ends: back in the prompt ("stay"), with the
\* overlay launched ("launch") or with an exception out of the handler ("raise").
Run(calls, label, end) == [calls |-> calls, label |-> label, end |-> end]

\* lines 440-445, with the key selected_task_key() gave
WithKey(task_key, calls, label, table) ==
    IF task_key = None \/ task_key.v = "" \/ ~HasKey(table, task_key.v)
    THEN Run(Append(calls, Matched(task_key)), StatusNotRecognized, "stay")
    ELSE Run(calls \o <<Matched(task_key), Launched(Lookup(table, task_key.v))>>,
             label, "launch")

\* lines 439-445, after the calls made so far and with the label as it stands
LibraryPath(calls, label, lines, sel, text, table) ==
    WithKey(selected_task_key(lines, sel, text), calls, label, table)

\* an on_start that asks the planner a second time when the first answer is unusable
AfterGenerateRetrying(r, lines, sel, label, text, table) ==
    IF ~r.ok THEN Run(<<Generated(r)>>, label, "raise")
    ELSE IF r.val # Unavailable THEN Run(<<Generated(r), Launched(r.val)>>, label, "launch")
    ELSE LibraryPath(<<Generated(r), Generated(r)>>, StatusFallback, lines, sel, text, table)

\* lines 433-445, with what generate_task_from_llm(query) returned or raised
AfterGenerate(r, lines, sel, label, text, table) ==
    IF ~r.ok THEN Run(<<Generated(r)>>, label, "raise")
    ELSE IF r.val # Unavailable THEN Run(<<Generated(r), Launched(r.val)>>, label, "launch")
    ELSE LibraryPath(<<Generated(r)>>, StatusFallback, lines, sel, text, table)

\* on_start(), given what the network would do
on_start_run(text, llm, lines, sel, label, table, env, net) ==
    IF Strip(text) = "" THEN Run(<<>>, StatusEmptyRequest, "stay")
    ELSE IF llm
    THEN AfterGenerate(generate_task_from_llm(env, net), lines, sel, label, text, table)
    ELSE LibraryPath(<<>>, label, lines, sel, text, table)


\* The surroundings of a session: the tasks file, the planner's configuration, the
\* answers the network may give, and the requests the user types.
ZeroStepTask ==
    JObj([title |-> JStr("Reset VPN"), description |-> JStr("Nothing to do."),
          steps |-> JList(<<>>)])

PlanTask ==
    JObj([title |-> JStr("Restart the print spooler"),
          description |-> JStr("Generated plan."),
          steps |-> JList(<<
              JObj([instruction |-> JStr("Open the services console."),
                    actions |-> JList(<<JObj([type |-> JStr("open_app"),
                                              value |-> JStr("services.msc")]),
                                        JObj([type |-> JStr("hotkey"),
                                              value |-> JStr("ctrl + f")])>>)]),
              JObj([instruction |-> JStr("Restart the Print Spooler service."),
                    actions |-> JList(<<JObj([type |-> JStr("launch_rocket")])>>)]) >>)])

SessionFiles ==
    { AbsentFile, MalformedFile,
      JsonFile(JMap(<< <<"bluetooth", GoodTask>>, <<"vpn", ZeroStepTask>> >>)),
      JsonFile(JMap(<< <<"vpn]", GoodTask>> >>)) }

SessionEnvs ==
    { [url |-> "", model |-> "", api_key |-> ""],
      [url |-> " http://llm.test/v1 ", model |-> " m ", api_key |-> "k"] }

Answer(doc) ==
    NetJson(JObj([choices |-> JList(<<JObj([message |->
        JObj([content |-> JText("fence_json", TRUE, doc)])])>>)]))

SessionNets ==
    { NetTimeout, Answer(PlanTask), Answer(ZeroStepTask), NetJson(JObj([choices |-> JList(<<>>)])) }

EntryTexts == { "", "vpn", "connect to wifi", "printer" }

\* lines 372-411 and 455: the library is loaded, the prompt is built and the
\* suggestions for the empty entry are shown; a load that raises ends the process
Init ==
    /\ call \in { [op |-> "session", file |-> f, env |-> e] : f \in SessionFiles, e \in SessionEnvs }
    /\ LET loaded == load_task_library(call.file)
       IN  IF loaded.ok
           THEN /\ pc = "prompt"
                /\ ret = None
                /\ tasks = loaded.val
                /\ listbox = SuggestionLines("", loaded.val)
           ELSE /\ pc = "failed"
                /\ ret = loaded
                /\ tasks = <<>>
                /\ listbox = <<>>
    /\ entry = ""
    /\ llm_var = TRUE
    /\ selection = 0
    /\ status = ""
    /\ task = None
    /\ step_index = 0
    /\ status_message = ""
    /\ lastRun = None
    /\ events = <<>>

overlayVars == <<task, step_index, status_message, lastRun>>
promptVars == <<entry, llm_var, listbox, selection, status, events>>

\* the user edits the entry
EditEntry(text) ==
    /\ pc = "prompt"
    /\ entry' = text
    /\ UNCHANGED <<pc, call, ret, tasks, llm_var, listbox, selection, status, events, overlayVars>>

\* refresh_suggestions(), on a key release in the entry
refresh_suggestions ==
    /\ pc = "prompt"
    /\ listbox' = SuggestionLines(entry, tasks)
    /\ selection' = 0
    /\ UNCHANGED <<pc, call, ret, tasks, entry, llm_var, status, events, overlayVars>>

\* the user selects a line of the listbox
SelectLine(i) ==
    /\ pc = "prompt"
    /\ i \in 1..Len(listbox)
    /\ selection' = i
    /\ UNCHANGED <<pc, call, ret, tasks, entry, llm_var, listbox, status, events, overlayVars>>

\* the user ticks or clears the "Use LLM planner" checkbox
ToggleLLM ==
    /\ pc = "prompt"
    /\ llm_var' = ~llm_var
    /\ UNCHANGED <<pc, call, ret, tasks, entry, listbox, selection, status, events, overlayVars>>

\* prompt.destroy(); launch_overlay(t): OverlayUI.__init__ sets the index and the
\* status and renders; render raises IndexError on a task without steps, after the
\* key bindings are made and before any button is placed
LaunchOverlay(t) ==
    /\ pc' = IF Len(t.steps) = 0 THEN "crashed" ELSE "overlay"
    /\ task' = t
    /\ step_index' = 0
    /\ status_message' = ""
    /\ lastRun' = None
    /\ entry' = ""
    /\ listbox' = <<>>
    /\ selection' = 0
    /\ status' = ""

\* what a run of on_start leaves behind
AfterRun(run) ==
    /\ events' = run.calls
    /\ IF run.end = "launch"
       THEN LaunchOverlay(run.calls[Len(run.calls)].task)
       ELSE /\ status' = run.label
            /\ UNCHANGED <<pc, entry, listbox, selection, overlayVars>>

\* on_start(), on the Start button, Return or a double click on a suggestion
on_start(net) ==
    /\ pc = "prompt"
    /\ AfterRun(on_start_run(entry, llm_var, listbox, selection, status, tasks, call.env, net))
    /\ UNCHANGED <<call, ret, tasks, llm_var>>

\* a next_step that does not clear the status
next_step_keeping_status ==
    /\ pc \in {"overlay", "crashed"}
    /\ IF step_index < Len(task.steps) - 1
       THEN /\ step_index' = step_index + 1
            /\ lastRun' = None
            /\ UNCHANGED status_message
       ELSE UNCHANGED <<step_index, status_message, lastRun>>
    /\ UNCHANGED <<pc, call, ret, tasks, task, promptVars>>

\* a next_step that does not look at the last index
next_step_unguarded ==
    /\ pc \in {"overlay", "crashed"}
    /\ step_index' = step_index + 1
    /\ status_message' = ""
    /\ lastRun' = None
    /\ UNCHANGED <<pc, call, ret, tasks, task, promptVars>>

\* OverlayUI.next_step(), on the Next button or the Right key
next_step ==
    /\ pc \in {"overlay", "crashed"}
    /\ IF step_index < Len(task.steps) - 1
       THEN /\ step_index' = step_index + 1
            /\ status_message' = ""
            /\ lastRun' = None
       ELSE UNCHANGED <<step_index, status_message, lastRun>>
    /\ UNCHANGED <<pc, call, ret, tasks, task, promptVars>>

\* OverlayUI.prev_step(), on the Previous button or the Left key
prev_step ==
    /\ pc \in {"overlay", "crashed"}
    /\ IF step_index > 0
       THEN /\ step_index' = step_index - 1
            /\ status_message' = ""
            /\ lastRun' = None
       ELSE UNCHANGED <<step_index, status_message, lastRun>>
    /\ UNCHANGED <<pc, call, ret, tasks, task, promptVars>>

\* OverlayUI.run_agent_for_step(), on the "Do it for me" button, on a host that
\* behaves as host says; an exception out of execute_step ends the handler
run_agent_for_step(host) ==
    /\ pc = "overlay"
    /\ LET logs == execute_step(task.steps[step_index + 1], host)
       IN  IF logs.ok
           THEN /\ status_message' = Join(" | ", logs.val)
                /\ lastRun' = [step |-> step_index, logs |-> logs.val]
           ELSE UNCHANGED <<status_message, lastRun>>
    /\ UNCHANGED <<pc, call, ret, tasks, task, step_index, promptVars>>

\* root.destroy(), on Escape, the Close button or Done
CloseOverlay ==
    /\ pc \in {"overlay", "crashed"}
    /\ pc' = "closed"
    /\ UNCHANGED <<call, ret, tasks, promptVars, overlayVars>>

Next ==
    \/ \E text \in EntryTexts : EditEntry(text)
    \/ refresh_suggestions
    \/ \E i \in 1..ListboxRows : SelectLine(i)
    \/ ToggleLLM
    \/ \E net \in SessionNets : on_start(net)
    \/ next_step
    \/ prev_step
    \/ \E host \in HostSet : run_agent_for_step(host)
    \/ CloseOverlay

Spec == Init /\ [][Next]_vars

\* ---------------------------------------------------------------------------
\* Properties of the session

StepCount == Len(task.steps)

\* C1: for a task with N >= 1 steps the index stays in 0..N-1 from its start at 0
\* through every next, prev and agent run; next moves it up by exactly one below
\* N-1 and leaves it alone at N-1; prev moves it down by exactly one above 0 and
\* leaves it alone at 0 (so next and then prev from an interior index, which is
\* i -> i+1 -> i, comes back to the index it started from).
C1_IndexStaysInRange ==
    /\ [](task # None /\ StepCount >= 1 => step_index \in 0..(StepCount - 1))
    /\ [][pc = "prompt" /\ pc' = "overlay" => step_index' = 0]_vars
    /\ [][next_step /\ StepCount >= 1 =>
            step_index' = IF step_index < StepCount - 1 THEN step_index + 1 ELSE step_index]_vars
    /\ [][prev_step /\ StepCount >= 1 =>
            step_index' = IF step_index > 0 THEN step_index - 1 ELSE step_index]_vars
    /\ [][(\E host \in HostSet : run_agent_for_step(host)) => step_index' = step_index]_vars

\* the overlay stands on the last step of a task of three steps or more
C1_Witness ==
    /\ pc = "overlay"
    /\ StepCount >= 3
    /\ step_index = StepCount - 1

\* C2: every Task that exists has at least one step: the tasks of the library
\* table and the task handed to the overlay.
C2_EveryTaskHasASteps ==
    /\ \A i \in 1..Len(tasks) : Len(tasks[i][2].steps) >= 1
    /\ task # None => StepCount >= 1

\* C9: the status text of the overlay is empty or is the log of an agent run made
\* on the step now displayed, with no change of index since; a next or prev that
\* changes the index leaves the status empty; an agent run never changes the index.
C9_NoStaleStatus ==
    /\ [](status_message = ""
          \/ (/\ lastRun # None
              /\ lastRun.step = step_index
              /\ status_message = Join(" | ", lastRun.logs)))
    /\ [][(next_step \/ prev_step) /\ step_index' # step_index => status_message' = ""]_vars
    /\ [][(\E host \in HostSet : run_agent_for_step(host)) => step_index' = step_index]_vars
    /\ [][step_index' # step_index => status_message' = ""]_vars

\* the agent has run on a step other than the first and its log is displayed
C9_Witness ==
    /\ pc = "overlay"
    /\ step_index > 0
    /\ status_message # ""
    /\ lastRun # None
    /\ lastRun.step = step_index

Generates == {i \in 1..Len(events) : events[i].call = "generate"}
Matches == {i \in 1..Len(events) : events[i].call = "match"}
Launches == {i \in 1..Len(events) : events[i].call = "launch"}
LoadedTable == load_task_library(call.file).val

\* C10: in the calls of one start, generate is made at most once and before any
\* matching; when it returns a Task the overlay is launched with that Task and no
\* matching is done; the overlay is launched with a library Task only when
\* generate was not called or returned Unavailable, and then with the table entry
\* of the matched id; when the id matches no entry nothing is launched; the table
\* is the one that was loaded.
C10_GenerateOnceThenLibrary ==
    /\ Cardinality(Generates) <= 1
    /\ \A g \in Generates : \A m \in Matches : g < m
    /\ \A g \in Generates :
          events[g].result.ok /\ events[g].result.val # Unavailable
              => events = <<events[g], Launched(events[g].result.val)>>
    /\ Cardinality(Launches) <= 1
    /\ \A l \in Launches :
          /\ l = Len(events)
          /\ Matches = {} =>
                /\ Generates # {}
                /\ \A g \in Generates : events[g].result = Ok(events[l].task)
          /\ \A m \in Matches :
                /\ \A g \in Generates : events[g].result = Ok(Unavailable)
                /\ events[m].key # None
                /\ HasKey(tasks, events[m].key.v)
                /\ events[l].task = Lookup(tasks, events[m].key.v)
    /\ \A m \in Matches :
          (events[m].key = None \/ ~HasKey(tasks, events[m].key.v)) => Launches = {}
    /\ pc \in {"overlay", "crashed", "closed"} <=> Launches # {}
    /\ task # None => Launches # {} /\ task = events[Len(events)].task
    /\ pc # "failed" => tasks = LoadedTable

\* the planner was asked over the network, was unavailable, and the overlay shows
\* the library task of the matched id
C10_Witness ==
    /\ pc = "overlay"
    /\ CallsNetwork(call.env)
    /\ Len(events) = 3
    /\ events[1] = Generated(Ok(Unavailable))
    /\ events[2].call = "match"
    /\ events[3] = Launched(Lookup(tasks, events[2].key.v))
    /\ task = events[3].task

\* a start with the planner misconfigured falls back to the library the same way
C10_MisconfiguredFallsBack ==
    ~CallsNetwork(call.env) => \A g \in Generates : events[g].result = Ok(Unavailable)

\* ---------------------------------------------------------------------------
\* Actions with an empty payload

SkippedOpenApp == "Skipped open_app: missing command value."
SkippedHotkey == "Skipped hotkey: no keys provided."

\* the actions of the step that is run whose payload is empty
EmptyOpenApps ==
    {i \in 1..Len(call.step.actions) :
        /\ call.step.actions[i].type = JStr("open_app")
        /\ ~Truthy(call.step.actions[i].value)}
EmptyHotkeys ==
    {i \in 1..Len(call.step.actions) :
        /\ call.step.actions[i].type = JStr("hotkey")
        /\ call.step.actions[i].value.t = "str"
        /\ HotkeyParts(call.step.actions[i].value.s) = <<>>}
CallsMade == {ret.calls[j] : j \in 1..Len(ret.calls)}

\* C11 as claimed: an action with an empty payload is skipped with a skip line and
\* no host call: an open_app with an empty value launches no process and logs a
\* skip; a hotkey whose value leaves no parts after splitting on the plus sign and
\* trimming sends no keys and logs a skip, whether pyautogui is there or not.
C11_EmptyPayloadIsSkipped ==
    (pc = "done" /\ call.op = "exec" /\ ret.ok) =>
        /\ \A i \in EmptyOpenApps :
              /\ ret.val[i] = SkippedOpenApp
              /\ <<"subprocess.Popen", call.step.actions[i].value>> \notin CallsMade
        /\ \A i \in EmptyHotkeys :
              /\ ret.val[i] = SkippedHotkey
              /\ <<"pyautogui.hotkey", JList(<<>>)>> \notin CallsMade

\* The same statement where pyautogui can be imported: it holds, which leaves the
\* host without pyautogui as the only divergence.
EmptyPayloadSkippedWithPyautogui ==
    (pc = "done" /\ call.op = "exec" /\ ret.ok /\ call.host.pyautogui # "missing") =>
        /\ \A i \in EmptyOpenApps : ret.val[i] = SkippedOpenApp
        /\ \A i \in EmptyHotkeys : ret.val[i] = SkippedHotkey

\* No host call is made for an empty payload on any host, and the open_app half of
\* the statement holds on every host.
EmptyPayloadMakesNoHostCall ==
    (pc = "done" /\ call.op = "exec" /\ ret.ok) =>
        /\ \A i \in EmptyOpenApps :
              /\ ret.val[i] = SkippedOpenApp
              /\ <<"subprocess.Popen", call.step.actions[i].value>> \notin CallsMade
        /\ \A i \in EmptyHotkeys : <<"pyautogui.hotkey", JList(<<>>)>> \notin CallsMade

=============================================================================
